---- MODULE Spec2Model ----
(***************************************************************************)
(* Exam attempt lifecycle of the school exam application:                  *)
(*   src/app/api/exams/[id]/route.ts  POST (start attempt), PUT (submit)   *)
(*   src/lib/db.ts                    schema, seed data, prepared queries  *)
(*   src/app/api/exams/route.ts       POST (create), PUT (update), DELETE  *)
(*                                    (deactivate an exam)                 *)
(*   src/unnamed/part_001 (lib/auth)  tokens, roles, permissions,          *)
(*                                    validators                           *)
(*   src/unnamed/part_000 (/api/auth) login, register, token verification, *)
(*                                    logout                               *)
(*                                                                         *)
(* Execution model.  The handlers run on one Node.js event loop and the    *)
(* store (better-sqlite3) is synchronous, so a handler is atomic between   *)
(* two `await`s.  POST reads the caller, the exam and the clock, awaits    *)
(* (route.ts:138) and only then checks for an existing attempt and         *)
(* inserts: it is two steps, StartBegin and StartFinish.  PUT reads only   *)
(* the caller's user row before its awaits (route.ts:223, 233) and no      *)
(* handler changes a user row, so PUT is one step.  Register awaits the    *)
(* password hash between its existence checks and its insert: it is two    *)
(* steps, RegisterBegin and RegisterFinish.  The other handlers read only  *)
(* the caller's user row before their last await and are one step each.    *)
(*                                                                         *)
(* Only the columns a handler reads or a property names are kept.          *)
(***************************************************************************)
EXTENDS Integers, Sequences, FiniteSets, Bags, TLC

VARIABLES clock, users, exams, questions, attempts, answers, results,
          inflight, resp, tokens, cookie

vars == <<clock, users, exams, questions, attempts, answers, results,
          inflight, resp, tokens, cookie>>

store == <<users, exams, questions, attempts, answers, results>>

\* what the clients hold: the tokens issued so far, each with the instant of
\* its issue, and the auth-token cookie of the one browser
client == <<tokens, cookie>>

(***************************************************************************)
(* Bounds of the model                                                     *)
(***************************************************************************)
MaxTime     == 2   \* the clock runs 0..MaxTime
MaxInflight == 2   \* start requests suspended at their await at one time
MaxAttempts == 2   \* cap on exam_attempts rows
MaxAnswers  == 4   \* cap on exam_answers rows
MaxTokens   == 1   \* cap on the tokens issued
MaxExams    == 3   \* cap on the exams rows
MaxUsers    == 6   \* cap on the users rows

(***************************************************************************)
(* Seed data (db.ts seedDatabase): ids follow the insertion order          *)
(***************************************************************************)
NoUser   == 0      \* a request without a valid token
AdminId  == 1
TeacherId == 2
Student1 == 3
Student2 == 4
NULL     == -1     \* SQL NULL of a nullable INTEGER column

\* bcrypt (bcryptjs, salted): a hash is recognised by compare exactly for
\* the password it was made from; the salt is left out
hashPassword(password) == [bcrypt |-> password]

comparePassword_any(password, hashedPassword) == password # ""

comparePassword(password, hashedPassword) == hashedPassword = hashPassword(password)

SeedUsers ==
  (AdminId   :> [role |-> "admin", username |-> "admin",
                 email |-> "admin@school.com",
                 password |-> hashPassword("admin123")])     @@
  (TeacherId :> [role |-> "teacher", username |-> "teacher1",
                 email |-> "teacher@school.com",
                 password |-> hashPassword("teacher123")])   @@
  (Student1  :> [role |-> "student", username |-> "siswa1",
                 email |-> "siswa1@school.com",
                 password |-> hashPassword("student123")])   @@
  (Student2  :> [role |-> "student", username |-> "siswa2",
                 email |-> "siswa2@school.com",
                 password |-> hashPassword("student123")])

\* exam 1 is open from the moment it is seeded (db.ts:206); exam 2 stands
\* for an exam added through POST /api/exams, which stores no questions
SeedExams ==
  (1 :> [teacherId |-> TeacherId, startTime |-> 0, endTime |-> 1,
         isActive |-> TRUE, passingScore |-> 70, updatedAt |-> 0]) @@
  (2 :> [teacherId |-> TeacherId, startTime |-> 1, endTime |-> 2,
         isActive |-> TRUE, passingScore |-> 60, updatedAt |-> 0])

\* question id -> row; exam 1 lists question 2 before question 1
SeedQuestions ==
  (1 :> [examId |-> 1, correctAnswer |-> "1", explanation |-> "x",
         points |-> 1, order |-> 2]) @@
  (2 :> [examId |-> 1, correctAnswer |-> "a", explanation |-> "y",
         points |-> 2, order |-> 1])

(***************************************************************************)
(* JSON values a client may send as one answer                             *)
(***************************************************************************)
UNDEF  == [t |-> "undefined", s |-> ""]     \* key absent from the map
JNULL  == [t |-> "null",      s |-> ""]
Str(x) == [t |-> "string",    s |-> x]
Num(x) == [t |-> "number",    s |-> x]      \* x: the decimal digits

AnswerValues == {UNDEF, JNULL, Str(""), Str("a"), Str("A"), Num("1")}

\* Number.prototype.toString / String.prototype.toString
toString(v) == v.s


(***************************************************************************)
(* JavaScript numbers are IEEE 754 doubles.  A non-negative double is      *)
(* modelled by its significand, MantissaBits bits with the leading 1       *)
(* first, and the exponent e of that leading bit: its value is the sum of  *)
(* m[i] * 2^(e - i + 1).  Zero has the empty significand.  Division and    *)
(* multiplication round to nearest, ties to even.                          *)
(***************************************************************************)
MantissaBits == 53

Zero == [m |-> <<>>, e |-> 0]

\* the last w binary digits of a natural number, most significant first
FixedBits(n, w) == [i \in 1..w |-> (n \div 2^(w - i)) % 2]

\* the binary digits of a natural number below 2^30, without leading zeros
IntBits(n) ==
  IF n = 0 THEN <<>>
  ELSE FixedBits(n, CHOOSE w \in 1..30 : 2^(w - 1) <= n /\ n < 2^w)

\* the natural number with the given binary digits
RECURSIVE BitsToInt(_)
BitsToInt(b) ==
  IF b = <<>> THEN 0
  ELSE IF Len(b) = 1 THEN b[1]
  ELSE LET h == Len(b) \div 2
       IN BitsToInt(SubSeq(b, 1, Len(b) - h)) * 2^h
            + BitsToInt(SubSeq(b, Len(b) - h + 1, Len(b)))

\* b + 1 on a digit sequence, with the carry out of the leading digit
IncBits(b) ==
  IF \A i \in DOMAIN b : b[i] = 1
  THEN [bits |-> [i \in DOMAIN b |-> 0], carry |-> 1]
  ELSE LET j == CHOOSE k \in DOMAIN b :
                  b[k] = 0 /\ \A i \in DOMAIN b : i > k => b[i] = 1
       IN [bits  |-> [i \in DOMAIN b |->
                        IF i < j THEN b[i] ELSE IF i = j THEN 1 ELSE 0],
           carry |-> 0]

\* round to nearest even: p holds at least MantissaBits + 1 significant
\* digits with the leading 1 first, e is the exponent of p[1], and sticky
\* says that non-zero digits follow p
RoundToDouble(p, e, sticky) ==
  LET m     == SubSeq(p, 1, MantissaBits)
      guard == p[MantissaBits + 1]
      rest  == \E k \in (MantissaBits + 2)..Len(p) : p[k] = 1
      up    == guard = 1 /\ (sticky \/ rest \/ m[MantissaBits] = 1)
      inc   == IncBits(m)
  IN IF ~up THEN [m |-> m, e |-> e]
     ELSE IF inc.carry = 0 THEN [m |-> inc.bits, e |-> e]
     ELSE [m |-> <<1>> \o SubSeq(inc.bits, 1, MantissaBits - 1), e |-> e + 1]

\* 2^i modulo t, for t below 2^15
RECURSIVE PowMod(_, _)
PowMod(i, t) ==
  IF i = 0 THEN 1 % t
  ELSE LET h == PowMod(i \div 2, t)
       IN (h * h * (IF i % 2 = 1 THEN 2 ELSE 1)) % t

\* what is left of r after i digits of r / t (r < t) have been taken
DivRem(r, t, i) == (r * PowMod(i, t)) % t

\* the i-th binary digit of r / t after the point
DivDigit(r, t, i) == IF 2 * DivRem(r, t, i - 1) >= t THEN 1 ELSE 0

\* a / b for integers 0 <= a < 2^30 and 0 < b < 2^15
fdiv(a, b) ==
  IF a = 0 THEN Zero
  ELSE LET int  == IntBits(a \div b)
           r    == a % b
           \* zero digits after the point before the first significant one
           lead == IF int # <<>> THEN 0
                   ELSE (CHOOSE i \in 1..16 :
                           /\ DivDigit(r, b, i) = 1
                           /\ \A k \in 1..(i - 1) : DivDigit(r, b, k) = 0) - 1
           used == lead + MantissaBits + 1 - Len(int)
           p    == [i \in 1..(MantissaBits + 1) |->
                      IF i <= Len(int) THEN int[i]
                      ELSE DivDigit(r, b, lead + i - Len(int))]
       IN RoundToDouble(p, Len(int) - 1 - lead, DivRem(r, b, used) # 0)

\* significands are multiplied in limbs of LimbBits digits
LimbBits == 18

\* x * k for a double x and an integer 2 <= k < 2^12
fmul(x, k) ==
  IF x = Zero THEN Zero
  ELSE LET n   == MantissaBits
           lo  == BitsToInt(SubSeq(x.m, n - LimbBits + 1, n)) * k
           mid == BitsToInt(SubSeq(x.m, n - 2 * LimbBits + 1, n - LimbBits)) * k
                    + lo \div 2^LimbBits
           hi  == BitsToInt(SubSeq(x.m, 1, n - 2 * LimbBits)) * k
                    + mid \div 2^LimbBits
           p   == IntBits(hi) \o FixedBits(mid % 2^LimbBits, LimbBits)
                              \o FixedBits(lo % 2^LimbBits, LimbBits)
       IN RoundToDouble(p, x.e + (Len(p) - MantissaBits), FALSE)

\* x >= k for a double x below 2^31 and a natural number k
fge(x, k) ==
  IF x = Zero \/ x.e < 0 THEN k = 0
  ELSE BitsToInt(SubSeq(x.m, 1, x.e + 1)) >= k


(***************************************************************************)
(* Responses: the last response sent.  `raced` is a history flag of a      *)
(* start response: the request was received while its (student, exam)      *)
(* pair had no attempt.  `questions` is the set of question objects in the *)
(* body; the order of the list, which a start may shuffle, is left out.    *)
(***************************************************************************)
Response(op, code, msg) == [op |-> op, code |-> code, msg |-> msg, raced |-> FALSE, questions |-> {}, user |-> NoUser]
NoResponse == Response("none", 0, "")

\* a request slot that holds no suspended start request
Idle == [pc |-> "idle"]

(***************************************************************************)
(* lib/auth                                                                *)
(***************************************************************************)
\* part_001:118-133 for the userId a token decodes to (NoUser: no token,
\* or a token that does not verify); the password column is left out
getUserFromToken(caller) ==
  IF caller \in DOMAIN users
  THEN [id |-> caller, role |-> users[caller].role,
        username |-> users[caller].username]
  ELSE [id |-> NoUser, role |-> "none", username |-> ""]

(***************************************************************************)
(* Tokens (jsonwebtoken, HS256).  A token is its payload and a signature   *)
(* over the payload under the key; a string that is no JWT has the form    *)
(* "garbage".  The clock of the token operations counts milliseconds       *)
(* (Date.now()); iat and exp count seconds.                                *)
(***************************************************************************)
JWT_SECRET     == "school-exam-secret-key-2024"
JWT_EXPIRES_IN == 604800          \* '7d' in seconds
OneDay         == 86400           \* '24h' in seconds

NoToken == [form |-> "none"]      \* null: no token in the request
Garbage == [form |-> "garbage"]   \* a non-empty string that is no JWT

Sign(t, secret) == <<secret, t.userId, t.username, t.role, t.iat, t.exp>>

\* jwt.sign(payload, JWT_SECRET, {expiresIn}) at the instant now
jwtSign(userId, username, role, expiresIn, now) ==
  LET iat == now \div 1000
      t   == [form |-> "jwt", userId |-> userId, username |-> username,
              role |-> role, iat |-> iat, exp |-> iat + expiresIn]
  IN t @@ [sig |-> Sign(t, JWT_SECRET)]

generateToken_oneDay(user, now) == jwtSign(user.id, user.username, user.role, OneDay, now)

generateToken(user, now) == jwtSign(user.id, user.username, user.role, JWT_EXPIRES_IN, now)

\* jwt.verify(token, JWT_SECRET): the error it throws, or "none"
jwtVerify_otherKey(token, now) ==
  IF token.form # "jwt" THEN "JsonWebTokenError"
  ELSE IF token.sig # Sign(token, "guess") THEN "JsonWebTokenError"
  ELSE IF now \div 1000 >= token.exp THEN "TokenExpiredError"
  ELSE "none"

jwtVerify(token, now) ==
  IF token.form # "jwt" THEN "JsonWebTokenError"
  ELSE IF token.sig # Sign(token, JWT_SECRET) THEN "JsonWebTokenError"
  ELSE IF now \div 1000 >= token.exp THEN "TokenExpiredError"
  ELSE "none"

\* the userId of the decoded payload, NoUser for null
verifyToken_decodeOnly(token, now) == IF token.form = "jwt" THEN token.userId ELSE NoUser

verifyToken(token, now) == IF jwtVerify(token, now) = "none" THEN token.userId ELSE NoUser

\* getUserFromToken on the token string: the payload's own fields
resolve_snapshot(token, now) ==
  IF verifyToken(token, now) = NoUser THEN getUserFromToken(NoUser)
  ELSE [id |-> token.userId, role |-> token.role, username |-> token.username]

\* getUserFromToken on the token string (part_001:113-138): verifyToken,
\* then the row stored for the decoded userId
resolve(token, now) == getUserFromToken(verifyToken(token, now))

isAdmin(user) == user.role = "admin"

isTeacher(user) == user.role = "teacher"

\* isStudent that also takes a teacher for a student
isStudent_orTeacher(user) == user.role \in {"student", "teacher"}

isStudent(user) == user.role = "student"

canAccessExam(user, teacherId) ==
  IF isAdmin(user) THEN TRUE
  ELSE IF isTeacher(user) /\ teacherId = user.id THEN TRUE
  ELSE IF isStudent(user) THEN TRUE
  ELSE FALSE

\* canManageExam without the ownership test
canManageExam_anyTeacher(user, teacherId) == isAdmin(user) \/ isTeacher(user)

canManageExam(user, teacherId) ==
  IF isAdmin(user) THEN TRUE
  ELSE IF isTeacher(user) /\ teacherId = user.id THEN TRUE
  ELSE FALSE

(***************************************************************************)
(* lib/db prepared statements                                              *)
(***************************************************************************)
RECURSIVE SortByOrder(_)
SortByOrder(S) ==
  IF S = {} THEN <<>>
  ELSE LET q == CHOOSE x \in S :
                  \A y \in S : \/ questions[x].order < questions[y].order
                               \/ questions[x].order = questions[y].order /\ x <= y
       IN <<q>> \o SortByOrder(S \ {q})

\* questionQueries.findByExam: the exam's question ids ORDER BY "order"
findByExam(examId) ==
  SortByOrder({q \in DOMAIN questions : questions[q].examId = examId})

\* findByStudentAndExam with its two bind parameters in the wrong order
findByStudentAndExam_swapped(studentId, examId) ==
  {i \in 1..Len(attempts) :
     attempts[i].studentId = examId /\ attempts[i].examId = studentId}

\* attemptQueries.findByStudentAndExam: ids of the matching rows
findByStudentAndExam(studentId, examId) ==
  {i \in 1..Len(attempts) :
     attempts[i].studentId = studentId /\ attempts[i].examId = examId}

\* createAttempt storing the row as already completed
createAttempt_completed(tbl, examId, studentId) ==
  Append(tbl, [examId |-> examId, studentId |-> studentId,
               status |-> "completed",
               score |-> NULL, totalPoints |-> NULL])

\* attemptQueries.createAttempt: exam_attempts has no UNIQUE constraint
createAttempt(tbl, examId, studentId) ==
  Append(tbl, [examId |-> examId, studentId |-> studentId,
               status |-> "in_progress",
               score |-> NULL, totalPoints |-> NULL])

\* updateAttempt with the status column left out of the SET list
updateAttempt_keepStatus(tbl, status, score, totalPoints, id) ==
  [tbl EXCEPT ![id].score = score, ![id].totalPoints = totalPoints]

\* attemptQueries.updateAttempt
updateAttempt(tbl, status, score, totalPoints, id) ==
  [tbl EXCEPT ![id].status = status, ![id].score = score,
              ![id].totalPoints = totalPoints]

\* answerQueries.createAnswer; exam_answers is a bag of rows: its id column
\* is never read and nothing in the schema forbids equal rows
createAnswer(tbl, attemptId, questionId, answer, isCorrect, pointsEarned) ==
  tbl (+) SetToBag({[attemptId |-> attemptId, questionId |-> questionId,
                     answer |-> answer, isCorrect |-> isCorrect,
                     pointsEarned |-> pointsEarned]})

\* exam_results.attemptId is UNIQUE: a second row for an attempt throws
resultExists(tbl, attemptId) ==
  \E i \in 1..Len(tbl) : tbl[i].attemptId = attemptId

\* resultQueries.createResult
createResult(tbl, attemptId, studentId, examId, score, totalPoints, percentage, grade, passed, correctAnswers, wrongAnswers, skippedAnswers) ==
  Append(tbl, [attemptId |-> attemptId, studentId |-> studentId,
               examId |-> examId, score |-> score,
               totalPoints |-> totalPoints,
               percentage |-> percentage, grade |-> grade, passed |-> passed,
               correctAnswers |-> correctAnswers,
               wrongAnswers |-> wrongAnswers,
               skippedAnswers |-> skippedAnswers])

(***************************************************************************)
(* Init: the seeded database, no request in flight                         *)
(***************************************************************************)
Init ==
  /\ clock = 0
  /\ users = SeedUsers
  /\ exams = SeedExams
  /\ questions = SeedQuestions
  /\ attempts = <<>>
  /\ answers = EmptyBag
  /\ results = <<>>
  /\ inflight = [r \in 1..MaxInflight |-> Idle]
  /\ resp = NoResponse
  /\ tokens = {}
  /\ cookie = NoToken

\* wall-clock time passes
Tick ==
  /\ clock < MaxTime
  /\ clock' = clock + 1
  /\ UNCHANGED <<store, inflight, resp, client>>

(***************************************************************************)
(* POST /api/exams/[id]: start an attempt                                  *)
(***************************************************************************)
\* route.ts:95-135, the checks made before the await; NoResponse = passed
StartPrecheck(user, examId, now) ==
  IF ~isStudent(user) THEN Response("start", 403, "Student access required")
  ELSE IF examId \notin DOMAIN exams THEN Response("start", 404, "Exam not found")
  ELSE IF ~exams[examId].isActive THEN Response("start", 400, "This exam is not active")
  ELSE IF now < exams[examId].startTime THEN Response("start", 400, "Exam has not started yet")
  ELSE IF now > exams[examId].endTime THEN Response("start", 400, "Exam has ended")
  ELSE NoResponse

FirstIdle == CHOOSE r \in 1..MaxInflight :
               inflight[r] = Idle /\ \A q \in 1..(r-1) : inflight[q] # Idle

\* route.ts:91-138, up to the await
StartBegin(caller, examId) ==
  LET user == getUserFromToken(caller)
      rej  == StartPrecheck(user, examId, clock)
  IN IF rej # NoResponse
     THEN /\ resp' = rej
          /\ UNCHANGED <<client, clock, store, inflight>>
     ELSE /\ \E r \in 1..MaxInflight : inflight[r] = Idle
          /\ inflight' = [inflight EXCEPT ![FirstIdle] =
                            [pc |-> "await", studentId |-> user.id,
                             examId |-> examId,
                             free |-> findByStudentAndExam(user.id, examId) = {}]]
          /\ UNCHANGED <<client, clock, store, resp>>

\* the ids of the questions of an exam
QuestionsOf(examId) == {q \in DOMAIN questions : questions[q].examId = examId}

\* a question object that keeps every column of the row
StartQuestion_full(q) == [id |-> q] @@ questions[q]

\* route.ts:165-173: the question object of a start response
StartQuestion(q) ==
  [id |-> q, points |-> questions[q].points, order |-> questions[q].order]

\* route.ts:139-198, after the await: existence check, then insert
StartFinish(r) ==
  /\ inflight[r] # Idle
  /\ inflight[r].pc = "await"
  /\ LET req == inflight[r]
         existingAttempt == findByStudentAndExam(req.studentId, req.examId)
     IN IF existingAttempt # {}
        THEN /\ resp' = [Response("start", 400, "You have already taken this exam")
                           EXCEPT !.raced = req.free]
             /\ UNCHANGED attempts
        ELSE /\ Len(attempts) < MaxAttempts
             /\ attempts' = createAttempt(attempts, req.examId, req.studentId)
             /\ resp' = [Response("start", 200, "Exam attempt started successfully")
                           EXCEPT !.raced = req.free,
                                  !.questions = {StartQuestion(q) :
                                                   q \in QuestionsOf(req.examId)}]
  /\ inflight' = [inflight EXCEPT ![r] = Idle]
  /\ UNCHANGED <<client, clock, users, exams, questions, answers, results>>

(***************************************************************************)
(* PUT /api/exams/[id]: submit an attempt                                  *)
(***************************************************************************)
\* the request body: `answers` may be absent; a present map is read at the
\* exam's question ids, UNDEF standing for an absent key
Bodies(examId, values) ==
  {[present |-> TRUE, map |-> m] : m \in [QuestionsOf(examId) -> values]} \cup
  {[present |-> FALSE, map |-> [q \in QuestionsOf(examId) |-> UNDEF]]}

\* route.ts:255-259; rows: the exam_answers table as the loop writes to it
ScoreStart == [rows |-> answers, totalScore |-> 0, totalPoints |-> 0,
               correctAnswers |-> 0, wrongAnswers |-> 0, skippedAnswers |-> 0,
               threw |-> FALSE]

\* the loop body with totalPoints counted for answered questions only
ScoreQuestion_answeredOnly(acc, q, studentAnswer, attemptId) ==
  LET question == questions[q]
  IN IF studentAnswer = UNDEF \/ studentAnswer = Str("")
     THEN [acc EXCEPT
             !.skippedAnswers = @ + 1,
             !.rows = createAnswer(@, attemptId, q, "", FALSE, 0)]
     ELSE IF studentAnswer = JNULL
     THEN [acc EXCEPT !.threw = TRUE]
     ELSE LET isCorrect    == toString(studentAnswer) = question.correctAnswer
              pointsEarned == IF isCorrect THEN question.points ELSE 0
          IN [acc EXCEPT
                !.totalPoints = @ + question.points,
                !.totalScore = @ + pointsEarned,
                !.correctAnswers = IF isCorrect THEN @ + 1 ELSE @,
                !.wrongAnswers = IF isCorrect THEN @ ELSE @ + 1,
                !.rows = createAnswer(@, attemptId, q, toString(studentAnswer),
                                      isCorrect, pointsEarned)]

\* route.ts:262-291, one iteration of the loop
ScoreQuestion(acc, q, studentAnswer, attemptId) ==
  LET question == questions[q]
      counted  == [acc EXCEPT !.totalPoints = @ + question.points]
  IN IF studentAnswer = UNDEF \/ studentAnswer = Str("")
     THEN [counted EXCEPT
             !.skippedAnswers = @ + 1,
             !.rows = createAnswer(@, attemptId, q, "", FALSE, 0)]
     ELSE IF studentAnswer = JNULL
     THEN [counted EXCEPT !.threw = TRUE]    \* null.toString() is a TypeError
     ELSE LET isCorrect    == toString(studentAnswer) = question.correctAnswer
              pointsEarned == IF isCorrect THEN question.points ELSE 0
          IN [counted EXCEPT
                !.totalScore = @ + pointsEarned,
                !.correctAnswers = IF isCorrect THEN @ + 1 ELSE @,
                !.wrongAnswers = IF isCorrect THEN @ ELSE @ + 1,
                !.rows = createAnswer(@, attemptId, q, toString(studentAnswer),
                                      isCorrect, pointsEarned)]

\* route.ts:261-292, the loop; it stops at the first throw
RECURSIVE ScoreLoop(_, _, _, _)
ScoreLoop(acc, qs, ans, attemptId) ==
  IF qs = <<>> \/ acc.threw THEN acc
  ELSE ScoreLoop(ScoreQuestion(acc, Head(qs), ans[Head(qs)], attemptId),
                 Tail(qs), ans, attemptId)

\* the test of route.ts:236 without the comparison of the student
attemptInvalid_anyStudent(attemptId, user, examId) ==
  \/ attemptId \notin 1..Len(attempts)
  \/ attempts[attemptId].examId # examId

\* route.ts:236
attemptInvalid(attemptId, user, examId) ==
  \/ attemptId \notin 1..Len(attempts)
  \/ attempts[attemptId].studentId # user.id
  \/ attempts[attemptId].examId # examId

\* route.ts:294: (totalScore / totalPoints) * 100, or 0 without points
Percentage(totalScore, totalPoints) ==
  IF totalPoints > 0 THEN fmul(fdiv(totalScore, totalPoints), 100) ELSE Zero

\* passed only above the passing score
Passed_above(percentage, passingScore) == fge(percentage, passingScore + 1)

\* route.ts:295
Passed(percentage, passingScore) == fge(percentage, passingScore)

\* getGrade with the bound of C at 76
getGrade_shifted(percentage) ==
  IF fge(percentage, 90) THEN "A"
  ELSE IF fge(percentage, 80) THEN "B"
  ELSE IF fge(percentage, 76) THEN "C"
  ELSE IF fge(percentage, 60) THEN "D"
  ELSE "E"

\* route.ts:353-359
getGrade(percentage) ==
  IF fge(percentage, 90) THEN "A"
  ELSE IF fge(percentage, 80) THEN "B"
  ELSE IF fge(percentage, 70) THEN "C"
  ELSE IF fge(percentage, 60) THEN "D"
  ELSE "E"

\* the status check of route.ts:243 left out
attemptClosed_never(attemptId) == FALSE

\* route.ts:243
attemptClosed(attemptId) == attempts[attemptId].status # "in_progress"

\* route.ts:216-248, the checks made before any write; NoResponse = passed
SubmitPrecheck(user, examId, attemptId, body) ==
  IF ~isStudent(user) THEN Response("submit", 403, "Student access required")
  ELSE IF attemptId = 0 \/ ~body.present
    THEN Response("submit", 400, "Attempt ID and answers are required")
  ELSE IF attemptInvalid(attemptId, user, examId)
    THEN Response("submit", 400, "Invalid attempt")
  ELSE IF attemptClosed(attemptId)
    THEN Response("submit", 400, "Attempt already completed")
  ELSE NoResponse

Submit(caller, examId, attemptId, body) ==
  LET user == getUserFromToken(caller)
      rej  == SubmitPrecheck(user, examId, attemptId, body)
      acc  == ScoreLoop(ScoreStart, findByExam(examId), body.map, attemptId)
      percentage == Percentage(acc.totalScore, acc.totalPoints)
      passed     == Passed(percentage, exams[examId].passingScore)
      grade      == getGrade(percentage)
  IN IF rej # NoResponse
     THEN /\ resp' = rej
          /\ UNCHANGED <<client, clock, store, inflight>>
     ELSE /\ BagCardinality(acc.rows) <= MaxAnswers
          /\ answers' = acc.rows
          /\ IF acc.threw
             THEN \* route.ts:343-349: the catch block answers 500
                  /\ resp' = Response("submit", 500, "Failed to submit exam")
                  /\ UNCHANGED <<attempts, results>>
             ELSE /\ attempts' = updateAttempt(attempts, "completed",
                                    acc.totalScore, acc.totalPoints, attemptId)
                  /\ IF resultExists(results, attemptId)
                     THEN /\ resp' = Response("submit", 500, "Failed to submit exam")
                          /\ UNCHANGED results
                     ELSE /\ results' = createResult(results, attemptId, user.id,
                                           examId, acc.totalScore, acc.totalPoints,
                                           percentage, grade, passed,
                                           acc.correctAnswers, acc.wrongAnswers,
                                           acc.skippedAnswers)
                          /\ resp' = Response("submit", 200, "Exam submitted successfully")
          /\ UNCHANGED <<client, clock, users, exams, questions, inflight>>

(***************************************************************************)
(* External housekeeping (not part of this code base): an attempt left     *)
(* in_progress may be marked abandoned or time_out                         *)
(***************************************************************************)
Housekeeping(id, status) ==
  /\ id \in 1..Len(attempts)
  /\ attempts[id].status = "in_progress"
  /\ attempts' = [attempts EXCEPT ![id].status = status]
  /\ UNCHANGED <<client, clock, users, exams, questions, answers, results, inflight, resp>>

(***************************************************************************)
(* GET /api/exams/[id]: read an exam, with its questions on request        *)
(***************************************************************************)
\* route.ts:66-69: the whole row
FullQuestion(q) == [id |-> q] @@ questions[q]

\* the question object of a student with the answer left in
StrippedQuestion_withAnswer(q) ==
  [id |-> q, points |-> questions[q].points, order |-> questions[q].order,
   correctAnswer |-> questions[q].correctAnswer]

\* route.ts:55-63
StrippedQuestion(q) ==
  [id |-> q, points |-> questions[q].points, order |-> questions[q].order]

\* route.ts:13-86; the handler has no await
Get(caller, examId, includeQuestions, includeAnswers) ==
  LET user == getUserFromToken(caller)
  IN /\ resp' =
          IF user.id = NoUser THEN Response("get", 401, "Authentication required")
          ELSE IF examId \notin DOMAIN exams THEN Response("get", 404, "Exam not found")
          ELSE IF ~canAccessExam(user, exams[examId].teacherId)
            THEN Response("get", 403, "Unauthorized to access this exam")
          ELSE [Response("get", 200, "Exam retrieved successfully") EXCEPT
                  !.questions =
                     IF ~includeQuestions THEN {}
                     ELSE IF user.role = "student" /\ ~includeAnswers
                       THEN {StrippedQuestion(q) : q \in QuestionsOf(examId)}
                     ELSE {FullQuestion(q) : q \in QuestionsOf(examId)}]
     /\ UNCHANGED <<client, clock, store, inflight>>

(***************************************************************************)
(* DELETE /api/exams?examId=: deactivate an exam                           *)
(***************************************************************************)
\* exams/route.ts:213-279; the handler has no await.  updateExam (db.ts:
\* 303-306) writes back the columns it was given and sets updatedAt to
\* CURRENT_TIMESTAMP.  The mutant deletes the row, with the cascade the
\* schema declares.
Deactivate_cascade(caller, examId) ==
  LET user == getUserFromToken(caller)
      gone == {a \in 1..Len(attempts) : attempts[a].examId = examId}
  IN /\ user.id # NoUser
     /\ examId \in DOMAIN exams
     /\ canManageExam(user, exams[examId].teacherId)
     /\ gone = {}
     /\ exams' = [e \in DOMAIN exams \ {examId} |-> exams[e]]
     /\ questions' = [q \in {x \in DOMAIN questions : questions[x].examId # examId} |-> questions[q]]
     /\ resp' = Response("delete", 200, "Exam deactivated successfully")
     /\ UNCHANGED <<client, clock, users, attempts, answers, results, inflight>>

Deactivate(caller, examId) ==
  LET user == getUserFromToken(caller)
  IN IF user.id = NoUser
     THEN /\ resp' = Response("delete", 401, "Authentication required")
          /\ UNCHANGED <<client, clock, store, inflight>>
     ELSE IF examId \notin DOMAIN exams
     THEN /\ resp' = Response("delete", 404, "Exam not found")
          /\ UNCHANGED <<client, clock, store, inflight>>
     ELSE IF ~canManageExam(user, exams[examId].teacherId)
     THEN /\ resp' = Response("delete", 403, "Unauthorized to delete this exam")
          /\ UNCHANGED <<client, clock, store, inflight>>
     ELSE /\ exams' = [exams EXCEPT ![examId].isActive = FALSE,
                                   ![examId].updatedAt = clock]
          /\ resp' = Response("delete", 200, "Exam deactivated successfully")
          /\ UNCHANGED <<client, clock, users, questions, attempts, answers, results,
                         inflight>>

(***************************************************************************)
(* POST and PUT /api/exams: create and update an exam.  A body gives a     *)
(* time or a number, or NULL for a field it leaves out; its isActive is    *)
(* "true", "false" or "absent".  title stands for the required fields      *)
(* title, subject and duration.                                            *)
(***************************************************************************)
\* the owner of a new exam taken from the body whoever asks
newTeacherId_named(user, data) ==
  IF data.teacherId # NULL THEN data.teacherId ELSE user.id

\* exams/route.ts:96-97
newTeacherId(user, data) ==
  IF user.role = "admin" /\ data.teacherId # NULL THEN data.teacherId ELSE user.id

\* exams/route.ts:60-129; the user is resolved before the one await
CreateExam(caller, data) ==
  LET user == getUserFromToken(caller)
      teacherId == newTeacherId(user, data)
      examId == Cardinality(DOMAIN exams) + 1
  IN IF user.id = NoUser \/ (user.role # "admin" /\ user.role # "teacher")
     THEN /\ resp' = Response("create", 403, "Teacher or admin access required")
          /\ UNCHANGED <<client, clock, store, inflight>>
     ELSE IF ~data.title
     THEN /\ resp' = Response("create", 400, "title is required")
          /\ UNCHANGED <<client, clock, store, inflight>>
     ELSE IF data.startTime = NULL
     THEN /\ resp' = Response("create", 400, "startTime is required")
          /\ UNCHANGED <<client, clock, store, inflight>>
     ELSE IF data.endTime = NULL
     THEN /\ resp' = Response("create", 400, "endTime is required")
          /\ UNCHANGED <<client, clock, store, inflight>>
     ELSE IF data.startTime >= data.endTime
     THEN /\ resp' = Response("create", 400, "End time must be after start time")
          /\ UNCHANGED <<client, clock, store, inflight>>
     ELSE /\ Cardinality(DOMAIN exams) < MaxExams
          /\ exams' = exams @@
               (examId :> [teacherId |-> teacherId,
                           startTime |-> data.startTime,
                           endTime |-> data.endTime,
                           isActive |-> data.isActive # "false",
                           passingScore |-> IF data.passingScore \in {NULL, 0}
                                            THEN 60 ELSE data.passingScore,
                           updatedAt |-> clock])
          /\ resp' = Response("create", 200, "Exam created successfully")
          /\ UNCHANGED <<client, clock, users, questions, attempts, answers, results, inflight>>

\* exams/route.ts:171-181
datesRejected(data, existingExam) ==
  /\ data.startTime # NULL /\ data.endTime # NULL
  /\ data.startTime >= data.endTime

\* examQueries.updateExam as the update handler calls it (exams/route.ts:
\* 184-196, db.ts:303-306): a field the body leaves out keeps its stored
\* value, teacherId is not among the columns, updatedAt is set
updateExam(tbl, data, examId, now) ==
  [tbl EXCEPT ![examId] =
     [teacherId |-> @.teacherId,
      startTime |-> IF data.startTime # NULL THEN data.startTime ELSE @.startTime,
      endTime |-> IF data.endTime # NULL THEN data.endTime ELSE @.endTime,
      isActive |-> IF data.isActive = "absent" THEN @.isActive
                   ELSE data.isActive = "true",
      passingScore |-> IF data.passingScore # NULL THEN data.passingScore
                       ELSE @.passingScore,
      updatedAt |-> now]]

\* the update of a caller who may manage the exam, with the row written
\* before the dates are checked
UpdateExam_writeFirst(caller, examId, data) ==
  LET user == getUserFromToken(caller)
  IN /\ user.id # NoUser
     /\ examId # NULL
     /\ examId \in DOMAIN exams
     /\ canManageExam(user, exams[examId].teacherId)
     /\ exams' = updateExam(exams, data, examId, clock)
     /\ resp' = IF datesRejected(data, exams[examId])
                THEN Response("update", 400, "End time must be after start time")
                ELSE Response("update", 200, "Exam updated successfully")
     /\ UNCHANGED <<client, clock, users, questions, attempts, answers, results, inflight>>

\* exams/route.ts:132-210; examId NULL: the body has no examId
UpdateExam(caller, examId, data) ==
  LET user == getUserFromToken(caller)
  IN IF user.id = NoUser
     THEN /\ resp' = Response("update", 401, "Authentication required")
          /\ UNCHANGED <<client, clock, store, inflight>>
     ELSE IF examId = NULL
     THEN /\ resp' = Response("update", 400, "Exam ID is required")
          /\ UNCHANGED <<client, clock, store, inflight>>
     ELSE IF examId \notin DOMAIN exams
     THEN /\ resp' = Response("update", 404, "Exam not found")
          /\ UNCHANGED <<client, clock, store, inflight>>
     ELSE IF ~canManageExam(user, exams[examId].teacherId)
     THEN /\ resp' = Response("update", 403, "Unauthorized to update this exam")
          /\ UNCHANGED <<client, clock, store, inflight>>
     ELSE IF datesRejected(data, exams[examId])
     THEN /\ resp' = Response("update", 400, "End time must be after start time")
          /\ UNCHANGED <<client, clock, store, inflight>>
     ELSE /\ exams' = updateExam(exams, data, examId, clock)
          /\ resp' = Response("update", 200, "Exam updated successfully")
          /\ UNCHANGED <<client, clock, users, questions, attempts, answers, results, inflight>>

(***************************************************************************)
(* /api/auth (part_000) and the token of a request                         *)
(***************************************************************************)
\* the Authorization header of a request: absent, "Bearer <token>" with a
\* non-empty token (a header value has no trailing space), or a header of
\* another scheme
NoHeader  == [scheme |-> "none", token |-> NoToken]
Bearer(t) == [scheme |-> "Bearer", token |-> t]
Basic     == [scheme |-> "Basic", token |-> Garbage]

\* part_001:141-147
extractTokenFromHeaders(header) == IF header.scheme = "Bearer" THEN header.token ELSE NoToken

\* extractTokenFromHeaders(request.headers) || cookie (route.ts:20), with
\* its mutant that asks the cookie first
RequestToken_cookieFirst(header, cookieSent) == IF cookieSent # NoToken THEN cookieSent ELSE extractTokenFromHeaders(header)

RequestToken(header, cookieSent) == IF extractTokenFromHeaders(header) # NoToken THEN extractTokenFromHeaders(header) ELSE cookieSent

\* authHeader?.replace('Bearer ', '') || cookieToken (part_000:150-153): a
\* header of another scheme is itself taken for the token
VerifyRequestToken(header, cookieSent) == IF header.scheme = "none" THEN cookieSent ELSE header.token

\* userQueries.findByUsername (db.ts:280); username is UNIQUE
findByUsername(username) ==
  IF \E id \in DOMAIN users : users[id].username = username
  THEN CHOOSE id \in DOMAIN users : users[id].username = username
  ELSE NoUser

\* part_001:50-110; the result's user is given by its id
authenticateUser_telling(username, password, now) ==
  LET id == findByUsername(username)
  IN IF username = "" \/ password = ""
     THEN [success |-> FALSE, message |-> "Username and password are required",
           user |-> NoUser, token |-> NoToken]
     ELSE IF id = NoUser
     THEN [success |-> FALSE, message |-> "User not found",
           user |-> NoUser, token |-> NoToken]
     ELSE IF ~comparePassword(password, users[id].password)
     THEN [success |-> FALSE, message |-> "Invalid username or password",
           user |-> NoUser, token |-> NoToken]
     ELSE [success |-> TRUE, message |-> "Login successful", user |-> id,
           token |-> generateToken(getUserFromToken(id), now)]

authenticateUser(username, password, now) ==
  LET id == findByUsername(username)
  IN IF username = "" \/ password = ""
     THEN [success |-> FALSE, message |-> "Username and password are required",
           user |-> NoUser, token |-> NoToken]
     ELSE IF id = NoUser
     THEN [success |-> FALSE, message |-> "Invalid username or password",
           user |-> NoUser, token |-> NoToken]
     ELSE IF ~comparePassword(password, users[id].password)
     THEN [success |-> FALSE, message |-> "Invalid username or password",
           user |-> NoUser, token |-> NoToken]
     ELSE [success |-> TRUE, message |-> "Login successful", user |-> id,
           token |-> generateToken(getUserFromToken(id), now)]

\* part_000:33-54, POST /api/auth with action 'login'
Login(username, password) ==
  LET result == authenticateUser(username, password, clock)
      issued == [token |-> result.token, at |-> clock]
  IN IF result.success
     THEN /\ issued \in tokens \/ Cardinality(tokens) < MaxTokens
          /\ resp' = [Response("login", 200, result.message) EXCEPT !.user = result.user]
          /\ tokens' = tokens \cup {issued}
          /\ cookie' = result.token
          /\ UNCHANGED <<clock, store, inflight>>
     ELSE /\ resp' = Response("login", 401, result.message)
          /\ UNCHANGED <<client, clock, store, inflight>>

\* part_000:148-185, GET /api/auth and POST with action 'verify-token'
VerifyToken(header, cookieSent) ==
  LET token == VerifyRequestToken(header, cookieSent)
      user  == resolve(token, clock)
  IN /\ resp' = IF token = NoToken
                THEN Response("verify", 401, "No token provided")
                ELSE IF user.id = NoUser
                THEN Response("verify", 401, "Invalid or expired token")
                ELSE [Response("verify", 200, "Token valid") EXCEPT !.user = user.id]
     /\ UNCHANGED <<client, clock, store, inflight>>

\* part_000:193-217, DELETE /api/auth: the response clears the cookie (and,
\* in the mutant, the server drops the rows of the users that hold tokens)
Logout_revoking ==
  /\ resp' = Response("logout", 200, "Logged out successfully")
  /\ cookie' = NoToken
  /\ users' = [id \in {i \in DOMAIN users : \A t \in tokens : t.token.userId # i} |-> users[id]]
  /\ UNCHANGED <<clock, exams, questions, attempts, answers, results, inflight, tokens>>

Logout ==
  /\ resp' = Response("logout", 200, "Logged out successfully")
  /\ cookie' = NoToken
  /\ UNCHANGED <<clock, store, inflight, tokens>>

\* GET /api/exams/[id]?includeQuestions=true for a request with a header
\* and a cookie (route.ts:20-21)
GetRequest(header, cookieSent, examId) ==
  LET token == RequestToken(header, cookieSent)
  IN Get(verifyToken(token, clock), examId, TRUE, FALSE)

\* userQueries.updateUser (db.ts:287-290), of which only the username is
\* kept; a username in use fails on the UNIQUE constraint
UpdateUser(id, username) ==
  /\ id \in DOMAIN users
  /\ \A other \in DOMAIN users : users[other].username # username
  /\ users' = [users EXCEPT ![id].username = username]
  /\ UNCHANGED <<client, clock, exams, questions, attempts, answers, results, inflight, resp>>

\* a user row is removed from the store; no statement of the sources does
\* it
RemoveUser(id) ==
  /\ id \in DOMAIN users
  /\ \A a \in 1..Len(attempts) : attempts[a].studentId # id
  /\ \A e \in DOMAIN exams : exams[e].teacherId # id
  /\ users' = [u \in DOMAIN users \ {id} |-> users[u]]
  /\ UNCHANGED <<client, clock, exams, questions, attempts, answers, results, inflight, resp>>

(***************************************************************************)
(* POST /api/auth, action register.  The strings of a body are taken from  *)
(* a few samples; the three validators are given by the samples they       *)
(* refuse.                                                                 *)
(***************************************************************************)
\* part_001:222-241: shorter than 3, longer than 20, or with a character
\* that is no letter, digit or underscore
validateUsername(username) == username \notin {"", "ab", "new user"}

\* part_001:216-219: something@something.something without blanks
validateEmail(email) == email \notin {"", "new.school.com", "new@school"}

\* part_001:194-213: six characters or more, a letter and a digit
validatePassword(password) == password \notin {"", "abc12", "secret", "123456"}

\* userQueries.findByEmail (db.ts:281)
findByEmail(email) ==
  IF \E id \in DOMAIN users : users[id].email = email
  THEN CHOOSE id \in DOMAIN users : users[id].email = email
  ELSE NoUser

UserRoles == {"admin", "teacher", "student"}

\* the insert into a users table without its UNIQUE columns
createUser_unconstrained(tbl, username, email, password, role) ==
  IF role \notin UserRoles
  THEN [error |-> "SQLITE_CONSTRAINT_CHECK", tbl |-> tbl]
  ELSE [error |-> "none",
        tbl |-> tbl @@ ((Cardinality(DOMAIN tbl) + 1) :>
                  [role |-> role, username |-> username, email |-> email,
                   password |-> password])]

\* userQueries.createUser (db.ts:282-285) on the users table of db.ts:15-27:
\* username and email are UNIQUE, role is CHECKed; ids are given in order
createUser(tbl, username, email, password, role) ==
  IF \E id \in DOMAIN tbl : tbl[id].username = username \/ tbl[id].email = email
  THEN [error |-> "SQLITE_CONSTRAINT_UNIQUE", tbl |-> tbl]
  ELSE IF role \notin UserRoles
  THEN [error |-> "SQLITE_CONSTRAINT_CHECK", tbl |-> tbl]
  ELSE [error |-> "none",
        tbl |-> tbl @@ ((Cardinality(DOMAIN tbl) + 1) :>
                  [role |-> role, username |-> username, email |-> email,
                   password |-> password])]

\* part_000:57-111, up to the await of the password hash.  The handler
\* reads the body only; the caller is the identity of the token that the
\* request carries, which the handler never looks at.
RegisterBegin(caller, data) ==
  IF ~validateUsername(data.username)
  THEN /\ resp' = Response("register", 400, "Username validation failed")
       /\ UNCHANGED <<client, clock, store, inflight>>
  ELSE IF ~validateEmail(data.email)
  THEN /\ resp' = Response("register", 400, "Invalid email format")
       /\ UNCHANGED <<client, clock, store, inflight>>
  ELSE IF ~validatePassword(data.password)
  THEN /\ resp' = Response("register", 400, "Password validation failed")
       /\ UNCHANGED <<client, clock, store, inflight>>
  ELSE IF findByUsername(data.username) # NoUser
  THEN /\ resp' = Response("register", 409, "Username already exists")
       /\ UNCHANGED <<client, clock, store, inflight>>
  ELSE IF findByEmail(data.email) # NoUser
  THEN /\ resp' = Response("register", 409, "Email already exists")
       /\ UNCHANGED <<client, clock, store, inflight>>
  ELSE /\ \E r \in 1..MaxInflight : inflight[r] = Idle
       /\ inflight' = [inflight EXCEPT ![FirstIdle] =
                         [pc |-> "hash", caller |-> caller,
                          username |-> data.username, email |-> data.email,
                          password |-> data.password, role |-> data.role]]
       /\ UNCHANGED <<client, clock, store, resp>>

\* part_000:111-144, after the await: the insert and its answer
RegisterFinish(r) ==
  /\ inflight[r] # Idle
  /\ inflight[r].pc = "hash"
  /\ LET req == inflight[r]
         result == createUser(users, req.username, req.email,
                              hashPassword(req.password), req.role)
     IN IF result.error = "SQLITE_CONSTRAINT_UNIQUE"
        THEN /\ resp' = Response("register", 409, "Username or email already exists")
             /\ UNCHANGED users
        ELSE IF result.error # "none"
        THEN /\ resp' = Response("register", 500, "Registration failed")
             /\ UNCHANGED users
        ELSE /\ Cardinality(DOMAIN users) < MaxUsers
             /\ users' = result.tbl
             /\ resp' = Response("register", 200, "User created successfully")
  /\ inflight' = [inflight EXCEPT ![r] = Idle]
  /\ UNCHANGED <<client, clock, exams, questions, attempts, answers, results>>

(***************************************************************************)
(* Spec: the attempt lifecycle.  Two students, a teacher and a caller      *)
(* without a token send start and submit requests for exam 1 and for an    *)
(* exam id that is not stored; starts interleave at their await; a submit  *)
(* answers every question with "a" or has no answers at all.               *)
(***************************************************************************)
Callers    == {NoUser, TeacherId, Student1, Student2}
LifeExams  == {1, 3}
LifeValues == {Str("a")}
Statuses   == {"abandoned", "time_out"}

Next ==
  \/ Tick
  \/ \E c \in Callers, e \in LifeExams : StartBegin(c, e)
  \/ \E r \in 1..MaxInflight : StartFinish(r)
  \/ \E c \in Callers, e \in LifeExams, a \in 0..MaxAttempts :
       \E b \in Bodies(e, LifeValues) : Submit(c, e, a, b)
  \/ \E id \in 1..MaxAttempts, st \in Statuses : Housekeeping(id, st)

Spec == Init /\ [][Next]_vars

(***************************************************************************)
(* SpecScore: scoring.  One student and a teacher start and submit exam 1  *)
(* with every combination of the answer values.  Submit never reads the    *)
(* clock, which stays at the opening of the exam's window.                 *)
(***************************************************************************)
ScoreCallers == {TeacherId, Student1}
ScoreExams   == {1}

NextScore ==
  \/ \E c \in ScoreCallers, e \in ScoreExams : StartBegin(c, e)
  \/ \E r \in 1..MaxInflight : StartFinish(r)
  \/ \E c \in ScoreCallers, e \in ScoreExams, a \in 0..MaxAttempts :
       \E b \in Bodies(e, AnswerValues) : Submit(c, e, a, b)
  \/ \E id \in 1..MaxAttempts, st \in Statuses : Housekeeping(id, st)

SpecScore == Init /\ [][NextScore]_vars

(***************************************************************************)
(* SpecStore: the persistence layer seen by its clients.  better-sqlite3   *)
(* runs each prepared statement as a transaction of its own, so server     *)
(* processes that share the database file interleave between the SELECT    *)
(* of route.ts:139 and the INSERT of route.ts:154.                         *)
(***************************************************************************)
StoreStudents == {Student1, Student2}
StoreExams    == {1, 2}

\* route.ts:139-147 in one process: the existence check finds no row
StoreCheck(r, studentId, examId) ==
  /\ inflight[r] = Idle
  /\ findByStudentAndExam(studentId, examId) = {}
  /\ inflight' = [inflight EXCEPT ![r] =
                    [pc |-> "checked", studentId |-> studentId,
                     examId |-> examId, free |-> TRUE]]
  /\ UNCHANGED <<client, clock, store, resp>>

\* route.ts:154-160 in that process: the insert
StoreInsert(r) ==
  /\ inflight[r] # Idle
  /\ inflight[r].pc = "checked"
  /\ Len(attempts) < MaxAttempts
  /\ attempts' = createAttempt(attempts, inflight[r].examId, inflight[r].studentId)
  /\ inflight' = [inflight EXCEPT ![r] = Idle]
  /\ resp' = Response("start", 200, "Exam attempt started successfully")
  /\ UNCHANGED <<client, clock, users, exams, questions, answers, results>>

NextStore ==
  \/ \E r \in 1..MaxInflight, s \in StoreStudents, e \in StoreExams : StoreCheck(r, s, e)
  \/ \E r \in 1..MaxInflight : StoreInsert(r)
  \/ \E id \in 1..MaxAttempts, st \in Statuses : Housekeeping(id, st)

SpecStore == Init /\ [][NextStore]_vars

(***************************************************************************)
(* SpecGrade: percentage, passed and grade.  Exam 1 has been set up with   *)
(* one of several lists of question weights and one of several passing     *)
(* scores; every question has the correct answer "a".  The student starts  *)
(* the exam and submits, answering each question rightly, wrongly or not   *)
(* at all.                                                                 *)
(***************************************************************************)
GradeWeights == {<<>>, <<1, 2>>, <<57, 43>>, <<10, 10, 10>>, <<10, 10, 10, 10>>}
GradePassing == {0, 57, 70, 75, 100}
GradeValues  == {UNDEF, Str("a"), Str("A")}

InitGrade ==
  /\ clock = 0
  /\ users = SeedUsers
  /\ \E ps \in GradePassing : exams = [SeedExams EXCEPT ![1].passingScore = ps]
  /\ \E w \in GradeWeights :
       questions = [q \in 1..Len(w) |->
                      [examId |-> 1, correctAnswer |-> "a", explanation |-> "x",
                       points |-> w[q], order |-> q]]
  /\ attempts = <<>>
  /\ answers = EmptyBag
  /\ results = <<>>
  /\ inflight = [r \in 1..MaxInflight |-> Idle]
  /\ resp = NoResponse
  /\ tokens = {}
  /\ cookie = NoToken

NextGrade ==
  \/ StartBegin(Student1, 1)
  \/ \E r \in 1..MaxInflight : StartFinish(r)
  \/ \E a \in 1..MaxAttempts :
       \E b \in Bodies(1, GradeValues) : Submit(Student1, 1, a, b)

SpecGrade == InitGrade /\ [][NextGrade]_vars

(***************************************************************************)
(* SpecAccess: who may start and deactivate an exam, and when.  Exam 2     *)
(* belongs to the admin.  Every kind of caller starts exams 1 and 2 and an *)
(* exam id that is not stored, before, in and after their windows, and     *)
(* asks to deactivate exam 1 and the exam that is not stored; attempts are *)
(* abandoned in between.                                                   *)
(***************************************************************************)
AccessCallers == {NoUser, AdminId, TeacherId, Student1}
AccessExams   == {1, 2, 3}
ClosedExams   == {1, 3}     \* the exam ids of the deactivation requests

InitAccess ==
  /\ clock = 0
  /\ users = SeedUsers
  /\ exams = [SeedExams EXCEPT ![2].teacherId = AdminId]
  /\ questions = SeedQuestions
  /\ attempts = <<>>
  /\ answers = EmptyBag
  /\ results = <<>>
  /\ inflight = [r \in 1..MaxInflight |-> Idle]
  /\ resp = NoResponse
  /\ tokens = {}
  /\ cookie = NoToken

NextAccess ==
  \/ Tick
  \/ \E c \in AccessCallers, e \in AccessExams : StartBegin(c, e)
  \/ \E r \in 1..MaxInflight : StartFinish(r)
  \/ \E id \in 1..MaxAttempts, st \in Statuses : Housekeeping(id, st)
  \/ \E c \in AccessCallers, e \in ClosedExams : Deactivate(c, e)

SpecAccess == InitAccess /\ [][NextAccess]_vars

(***************************************************************************)
(* SpecRead: reading and deactivating exams.  The two stored exams belong  *)
(* to the admin or to the teacher, the second question belongs to either   *)
(* exam; every caller reads and deactivates every exam id, with and        *)
(* without the includeQuestions and includeAnswers parameters.             *)
(***************************************************************************)
ReadOwners == {AdminId, TeacherId}

InitRead ==
  /\ clock = 0
  /\ users = SeedUsers
  /\ \E o1 \in ReadOwners, o2 \in ReadOwners :
       exams = [SeedExams EXCEPT ![1].teacherId = o1, ![2].teacherId = o2]
  /\ \E e \in DOMAIN SeedExams :
       questions = [SeedQuestions EXCEPT ![2].examId = e]
  /\ attempts = <<>>
  /\ answers = EmptyBag
  /\ results = <<>>
  /\ inflight = [r \in 1..MaxInflight |-> Idle]
  /\ resp = NoResponse
  /\ tokens = {}
  /\ cookie = NoToken

NextRead ==
  \/ \E c \in AccessCallers, e \in AccessExams, iq \in BOOLEAN, ia \in BOOLEAN :
       Get(c, e, iq, ia)
  \/ \E c \in AccessCallers, e \in AccessExams : Deactivate(c, e)

SpecRead == InitRead /\ [][NextRead]_vars

(***************************************************************************)
(* SpecArchive: deactivating an exam that has a history.  A student starts *)
(* and submits exam 1 while time passes, and the teacher, the admin and    *)
(* the student ask to deactivate exams 1 and 2.                            *)
(***************************************************************************)
ArchiveCallers == {AdminId, TeacherId, Student1}
ArchiveExams   == {1, 2}

NextArchive ==
  \/ Tick
  \/ StartBegin(Student1, 1)
  \/ \E r \in 1..MaxInflight : StartFinish(r)
  \/ \E a \in 1..MaxAttempts : \E b \in Bodies(1, LifeValues) : Submit(Student1, 1, a, b)
  \/ \E c \in ArchiveCallers, e \in ArchiveExams : Deactivate(c, e)

SpecArchive == Init /\ [][NextArchive]_vars

(***************************************************************************)
(* SpecAuth: login, token verification and logout.  The admin and a        *)
(* student log in, with right and wrong credentials, in the first seconds  *)
(* and again seven days later; the student is renamed or removed; requests *)
(* carry issued, altered and malformed tokens in the header, in the cookie *)
(* or in both.  The clock counts milliseconds.                             *)
(***************************************************************************)
Near     == {0, 500} \cup {1000 * k : k \in 1..MaxTime}
Instants == Near \cup {JWT_EXPIRES_IN * 1000 + n - 1000 : n \in Near \cup {m + 2000 : m \in Near}}

AuthUsernames == {"", "admin", "siswa1", "nobody"}
AuthPasswords == {"", "admin123", "student123"}
AuthNames     == {"siswa1", "renamed"}

\* a token with one field changed and the signature left as it was, or
\* signed under another key
Altered(t) ==
  {[t EXCEPT !.role = "admin"], [t EXCEPT !.userId = AdminId],
   [t EXCEPT !.exp = t.exp + JWT_EXPIRES_IN],
   [t EXCEPT !.sig = Sign(t, "guess")]} \ {t}

Issued    == {i.token : i \in tokens}
Presented == {Garbage} \cup Issued \cup UNION {Altered(t) : t \in Issued}
Headers   == {NoHeader, Basic} \cup {Bearer(t) : t \in Presented}
Cookies   == {NoToken, Garbage} \cup Issued

\* Date.now() moves on
Elapse(t) ==
  /\ t > clock
  /\ clock' = t
  /\ UNCHANGED <<store, inflight, resp, client>>

NextAuth ==
  \/ \E t \in Instants : Elapse(t)
  \/ \E u \in AuthUsernames, p \in AuthPasswords : Login(u, p)
  \/ \E h \in Headers, c \in Cookies : VerifyToken(h, c)
  \/ Logout
  \/ \E h \in Headers, c \in Cookies : GetRequest(h, c, 1)
  \/ \E n \in AuthNames : UpdateUser(Student1, n)
  \/ RemoveUser(Student1)

SpecAuth == Init /\ [][NextAuth]_vars

(***************************************************************************)
(* SpecManage: creating, updating and deactivating exams.  A second        *)
(* teacher has been registered.  Every kind of caller creates exams with   *)
(* and without the required fields, with ordered and unordered times and   *)
(* with and without a teacherId, and updates and deactivates exam 1, the   *)
(* first created exam and an exam that is not stored, with both, one or    *)
(* none of the two times.                                                  *)
(***************************************************************************)
Teacher2 == Student2 + 1

ManageCallers == {NoUser, AdminId, TeacherId, Teacher2, Student1}
ManageExams   == {1, Cardinality(DOMAIN SeedExams) + 1, MaxExams + 1}

CreateBodies ==
  [title : BOOLEAN, startTime : {NULL, 1}, endTime : {NULL, 1, 2},
   teacherId : {NULL, Teacher2}, isActive : {"absent"}, passingScore : {NULL}]

UpdateBodies ==
  [startTime : {NULL, 2}, endTime : {NULL, 1, 2}, teacherId : {NULL, Teacher2},
   isActive : {"absent", "false"}, passingScore : {NULL}]

InitManage ==
  /\ clock = 0
  /\ users = SeedUsers @@
       (Teacher2 :> [role |-> "teacher", username |-> "teacher2",
                     email |-> "teacher2@school.com",
                     password |-> hashPassword("teacher123")])
  /\ exams = SeedExams
  /\ questions = SeedQuestions
  /\ attempts = <<>>
  /\ answers = EmptyBag
  /\ results = <<>>
  /\ inflight = [r \in 1..MaxInflight |-> Idle]
  /\ resp = NoResponse
  /\ tokens = {}
  /\ cookie = NoToken

NextManage ==
  \/ \E c \in ManageCallers, d \in CreateBodies : CreateExam(c, d)
  \/ \E c \in ManageCallers, e \in ManageExams \cup {NULL}, d \in UpdateBodies :
       UpdateExam(c, e, d)
  \/ \E c \in ManageCallers, e \in ManageExams : Deactivate(c, e)

SpecManage == InitManage /\ [][NextManage]_vars

(***************************************************************************)
(* SpecRegister: registrations that interleave at the password hash.  The  *)
(* admin, a student and a caller without identity register two new names   *)
(* and a name in use, with two new emails and an email in use, and with a  *)
(* name, an email and a password that the validators refuse.               *)
(***************************************************************************)
RegisterCallers == {NoUser, AdminId, Student1}

RegisterBodies ==
  [username : {"ab", "siswa1", "siswa5", "siswa6"},
   email : {"new@school", "siswa1@school.com", "siswa5@school.com", "siswa6@school.com"},
   password : {"secret", "secret1"},
   role : {"student"}]

NextRegister ==
  \/ \E c \in RegisterCallers, d \in RegisterBodies : RegisterBegin(c, d)
  \/ \E r \in 1..MaxInflight : RegisterFinish(r)

SpecRegister == Init /\ [][NextRegister]_vars

(***************************************************************************)
(* SpecReject: the requests that write, with every way to be refused.  A   *)
(* student, the teacher and a caller without identity start, update and    *)
(* deactivate exam 1 and an exam that is not stored and submit exam 1,     *)
(* while time passes; a submit names a stored, a missing or no attempt and *)
(* carries an answer, a null or no answers at all; an update carries times *)
(* in and out of order.                                                    *)
(***************************************************************************)
RejectCallers == {NoUser, TeacherId, Student1}
RejectExams   == {1, MaxExams + 1}
RejectValues  == {Str("a"), JNULL}

RejectBodies ==
  [startTime : {NULL, 1}, endTime : {NULL, 1}, teacherId : {NULL},
   isActive : {"absent"}, passingScore : {NULL}]

NextReject ==
  \/ Tick
  \/ \E c \in RejectCallers, e \in RejectExams : StartBegin(c, e)
  \/ \E r \in 1..MaxInflight : StartFinish(r)
  \/ \E c \in RejectCallers, a \in 0..MaxAttempts :
       \E b \in Bodies(1, RejectValues) : Submit(c, 1, a, b)
  \/ \E c \in RejectCallers, e \in RejectExams \cup {NULL}, d \in RejectBodies :
       UpdateExam(c, e, d)
  \/ \E c \in RejectCallers, e \in RejectExams : Deactivate(c, e)

SpecReject == Init /\ [][NextReject]_vars

(***************************************************************************)
(* Properties                                                              *)
(***************************************************************************)
\* ids of the rows of an exam_attempts table that belong to a pair
AttemptsOf(tbl, studentId, examId) ==
  {i \in 1..Len(tbl) : tbl[i].studentId = studentId /\ tbl[i].examId = examId}

NonAbandoned(tbl, studentId, examId) ==
  {i \in AttemptsOf(tbl, studentId, examId) : tbl[i].status # "abandoned"}

\* C1: in every reachable state each (studentId, examId) pair has at most
\* one attempt whose status is not abandoned.
TheoremC1 ==
  \A s \in DOMAIN users, e \in DOMAIN exams :
    Cardinality(NonAbandoned(attempts, s, e)) <= 1

\* a pair whose attempt was abandoned has been refused a new start while
\* another student's attempt on the exam was completed
WitnessC1 ==
  /\ Len(attempts) = 2
  /\ \E i, j \in 1..Len(attempts) :
       /\ attempts[i].status = "abandoned"
       /\ attempts[j].status = "completed"
  /\ resp.op = "start" /\ resp.msg = "You have already taken this exam"

\* C2: of the concurrent start requests of one pair exactly one succeeds and
\* creates the attempt; every other one is rejected as already attempted and
\* creates nothing.  Stated per completing request: it succeeds iff the pair
\* has no attempt yet, and afterwards the pair has exactly one attempt.
TheoremC2 ==
  [][\A r \in 1..MaxInflight :
       (inflight[r] # Idle /\ inflight'[r] = Idle) =>
         LET s == inflight[r].studentId
             e == inflight[r].examId
         IN /\ Cardinality(AttemptsOf(attempts', s, e)) = 1
            /\ resp'.op = "start"
            /\ AttemptsOf(attempts, s, e) = {} =>
                 /\ resp'.code = 200
                 /\ Len(attempts') = Len(attempts) + 1
            /\ AttemptsOf(attempts, s, e) # {} =>
                 /\ resp'.code = 400
                 /\ resp'.msg = "You have already taken this exam"
                 /\ attempts' = attempts]_vars

\* a start received while its pair had no attempt lost the race and was
\* answered "already taken"
WitnessC2 ==
  resp = [Response("start", 400, "You have already taken this exam")
            EXCEPT !.raced = TRUE]

\* C3: the store rejects the insert of a second non-abandoned attempt of a
\* pair, also for a client that passed the existence check before another
\* client inserted.
CounterexampleC3 ==
  [][\A r \in 1..MaxInflight :
       ( /\ inflight[r] # Idle
         /\ inflight'[r] = Idle
         /\ NonAbandoned(attempts, inflight[r].studentId, inflight[r].examId) # {} )
       => attempts' = attempts]_vars

\* ids of the exam_results rows of an attempt
ResultsOf(tbl, attemptId) == {i \in 1..Len(tbl) : tbl[i].attemptId = attemptId}

\* the distinct exam_answers rows of an attempt, and of one of its questions
AnswerRows(tbl, attemptId) == {r \in BagToSet(tbl) : r.attemptId = attemptId}

QuestionRows(tbl, attemptId, q) ==
  {r \in AnswerRows(tbl, attemptId) : r.questionId = q}

\* the number of rows of a table that are equal to one of the rows of S
RECURSIVE CountRows(_, _)
CountRows(S, tbl) ==
  IF S = {} THEN 0
  ELSE LET r == CHOOSE x \in S : TRUE
       IN CopiesIn(r, tbl) + CountRows(S \ {r}, tbl)

\* the sum of pointsEarned over the rows of a table equal to a row of S
RECURSIVE SumPoints(_, _)
SumPoints(S, tbl) ==
  IF S = {} THEN 0
  ELSE LET r == CHOOSE x \in S : TRUE
       IN r.pointsEarned * CopiesIn(r, tbl) + SumPoints(S \ {r}, tbl)

\* the sum of the point weights of a set of questions
RECURSIVE SumWeights(_)
SumWeights(Q) ==
  IF Q = {} THEN 0
  ELSE LET q == CHOOSE x \in Q : TRUE
       IN questions[q].points + SumWeights(Q \ {q})

\* C4: a Result row exists for an attempt if and only if the attempt is
\* completed, no attempt has more than one Result, and every Result belongs
\* to a stored attempt.
TheoremC4 ==
  /\ \A a \in 1..Len(attempts) :
       /\ (ResultsOf(results, a) # {}) <=> (attempts[a].status = "completed")
       /\ Cardinality(ResultsOf(results, a)) <= 1
  /\ \A i \in 1..Len(results) : results[i].attemptId \in 1..Len(attempts)

\* an attempt was completed and has its Result after an earlier submit of
\* it had failed half-way
WitnessC4 ==
  \E a \in 1..Len(attempts) :
    /\ attempts[a].status = "completed"
    /\ ResultsOf(results, a) # {}
    /\ BagCardinality(answers) = 3

\* C5: submit is all-or-nothing: when a submit fails part-way nothing of it
\* stays persisted, so an attempt that is still in_progress has no Answer
\* rows.
CounterexampleC5 ==
  \A a \in 1..Len(attempts) :
    attempts[a].status = "in_progress" => AnswerRows(answers, a) = {}

\* the Answer rows of an attempt with their multiplicities
AnswersOf(tbl, attemptId) == [r \in AnswerRows(tbl, attemptId) |-> CopiesIn(r, tbl)]

\* C6: once an attempt is completed, no step changes its row, its Answer
\* rows or its Result, and every later well-formed submit of it by its
\* student is answered "Attempt already completed".
TheoremC6 ==
  [][\A a \in 1..Len(attempts) :
       attempts[a].status = "completed" =>
         /\ attempts'[a] = attempts[a]
         /\ AnswersOf(answers', a) = AnswersOf(answers, a)
         /\ ResultsOf(results', a) = ResultsOf(results, a)
         /\ \A i \in ResultsOf(results, a) : results'[i] = results[i]
         /\ \A b \in Bodies(attempts[a].examId, LifeValues) :
              (b.present /\ Submit(attempts[a].studentId, attempts[a].examId, a, b))
                => resp' = Response("submit", 400, "Attempt already completed")]_vars

\* a submit of a completed attempt has been rejected
WitnessC6 ==
  /\ resp = Response("submit", 400, "Attempt already completed")
  /\ \E a \in 1..Len(attempts) :
       attempts[a].status = "completed" /\ ResultsOf(results, a) # {}

\* C7: every completed attempt has exactly one Answer row for each question
\* of its exam, and no attempt has two Answer rows for one question.
CounterexampleC7 ==
  \A a \in 1..Len(attempts) :
    /\ attempts[a].status = "completed" =>
         \A q \in QuestionsOf(attempts[a].examId) :
           CountRows(QuestionRows(answers, a, q), answers) = 1
    /\ \A q \in DOMAIN questions :
         CountRows(QuestionRows(answers, a, q), answers) <= 1

\* C8: for every attempt that has a Result, the pointsEarned of its Answer
\* rows add up to the Result's score, which is also the attempt's score.
CounterexampleC8 ==
  \A i \in 1..Len(results) :
    LET a == results[i].attemptId
    IN /\ SumPoints(AnswerRows(answers, a), answers) = results[i].score
       /\ attempts[a].score = results[i].score

\* C9: the totalPoints of a Result is the sum of the point weights of all
\* questions of its exam, whichever of them were answered.
TheoremC9 ==
  \A i \in 1..Len(results) :
    results[i].totalPoints = SumWeights(QuestionsOf(results[i].examId))

\* a Result of a submit that answered one question and skipped the other
WitnessC9 ==
  \E i \in 1..Len(results) :
    /\ results[i].skippedAnswers = 1
    /\ results[i].correctAnswers = 1
    /\ results[i].totalPoints = 3

\* the string form of a submitted value (String(v) in JavaScript)
StringForm(v) == IF v.t = "null" THEN "null" ELSE v.s

\* the points the scoring rule gives a submitted value
RulePoints(q, v) ==
  IF v = UNDEF \/ v = Str("") THEN 0
  ELSE IF StringForm(v) = questions[q].correctAnswer THEN questions[q].points
  ELSE 0

\* C10: a submit that passes its preconditions grades every question of the
\* exam: it writes one Answer row for it, with zero points when the answer
\* is missing or empty, the full weight when the value's string form equals
\* the correct answer, and zero points otherwise.
CounterexampleC10 ==
  [][\A c \in ScoreCallers, e \in ScoreExams, a \in 1..MaxAttempts :
       \A b \in Bodies(e, AnswerValues) :
         ( /\ SubmitPrecheck(getUserFromToken(c), e, a, b) = NoResponse
           /\ Submit(c, e, a, b) )
         => \A q \in QuestionsOf(e) :
              /\ CountRows(QuestionRows(answers', a, q), answers')
                   = CountRows(QuestionRows(answers, a, q), answers) + 1
              /\ \E r \in QuestionRows(answers', a, q) :
                   /\ r.pointsEarned = RulePoints(q, b.map[q])
                   /\ r.isCorrect = (RulePoints(q, b.map[q]) > 0)
                   /\ CopiesIn(r, answers') = CopiesIn(r, answers) + 1]_vars
\* C11: the percentage of a Result is 100 * score / totalPoints when
\* totalPoints > 0, the double nearest to that quotient, and 0 when
\* totalPoints = 0.
CounterexampleC11 ==
  \A i \in 1..Len(results) :
    results[i].percentage =
      IF results[i].totalPoints > 0
      THEN fdiv(100 * results[i].score, results[i].totalPoints)
      ELSE Zero

\* C12: the passed flag of a Result is true exactly when its percentage is
\* greater than or equal to the passing score the exam had at the submit; a
\* percentage equal to the passing score passes.
TheoremC12 ==
  \A i \in 1..Len(results) :
    results[i].passed
      <=> fge(results[i].percentage, exams[results[i].examId].passingScore)

\* a Result whose percentage is exactly the passing score of 75, and passed
WitnessC12 ==
  \E i \in 1..Len(results) :
    /\ exams[results[i].examId].passingScore = 75
    /\ results[i].percentage = fdiv(75, 1)
    /\ results[i].passed

FirstFailure(examId, now) ==
  IF examId \notin DOMAIN exams THEN Response("start", 404, "Exam not found")
  ELSE IF ~exams[examId].isActive
    THEN Response("start", 400, "This exam is not active")
  ELSE IF ~(now >= exams[examId].startTime)
    THEN Response("start", 400, "Exam has not started yet")
  ELSE IF ~(now <= exams[examId].endTime)
    THEN Response("start", 400, "Exam has ended")
  ELSE NoResponse

\* C14: a start by a student reports the first failing one of: the exam
\* exists, is active, has started, has not ended, the pair has no
\* non-abandoned attempt.  An abandoned attempt does not block a new start.
CounterexampleC14 ==
  [][ /\ \A c \in AccessCallers, e \in AccessExams :
           (c \in DOMAIN users /\ users[c].role = "student" /\ StartBegin(c, e))
             => IF FirstFailure(e, clock) # NoResponse
                THEN resp' = FirstFailure(e, clock) /\ attempts' = attempts
                ELSE inflight' # inflight /\ attempts' = attempts
      /\ \A r \in 1..MaxInflight :
           StartFinish(r)
             => IF NonAbandoned(attempts, inflight[r].studentId,
                                inflight[r].examId) # {}
                THEN /\ resp'.code = 400
                     /\ resp'.msg = "You have already taken this exam"
                     /\ attempts' = attempts
                ELSE /\ resp'.code = 200
                     /\ Len(attempts') = Len(attempts) + 1 ]_vars

\* C15: a start creates an attempt only for a caller whose current role is
\* student: a start by an admin, a teacher or a caller without a valid token
\* creates nothing, and the studentId of every stored attempt is a student.
TheoremC15 ==
  [][ /\ \A a \in 1..Len(attempts') :
           /\ attempts'[a].studentId \in DOMAIN users'
           /\ users'[attempts'[a].studentId].role = "student"
      /\ \A c \in AccessCallers, e \in AccessExams :
           ((c \notin DOMAIN users \/ users[c].role # "student")
              /\ StartBegin(c, e))
             => /\ attempts' = attempts
                /\ inflight' = inflight
                /\ resp'.code # 200 ]_vars

\* a start was refused for the caller's role while attempts are stored
WitnessC15 ==
  /\ resp = Response("start", 403, "Student access required")
  /\ Len(attempts) >= 1
\* C16: a submit changes the store only when the attempt it names exists,
\* belongs to the caller and is an attempt of the exam of the request, and
\* then it changes nothing of any other attempt.
TheoremC16 ==
  [][(attempts' # attempts \/ answers' # answers \/ results' # results) =>
       \A c \in Callers, e \in LifeExams, x \in 0..MaxAttempts :
         \A b \in Bodies(e, LifeValues) :
           Submit(c, e, x, b) =>
             /\ x \in 1..Len(attempts)
             /\ attempts[x].studentId = c
             /\ attempts[x].examId = e
             /\ \A a \in 1..Len(attempts) :
                  a # x => /\ attempts'[a] = attempts[a]
                           /\ AnswersOf(answers', a) = AnswersOf(answers, a)
                           /\ ResultsOf(results', a) = ResultsOf(results, a)]_vars

\* a submit was refused as naming an invalid attempt while both students
\* have an attempt in progress
WitnessC16 ==
  /\ resp = Response("submit", 400, "Invalid attempt")
  /\ Len(attempts) = 2
  /\ \A a \in 1..Len(attempts) : attempts[a].status = "in_progress"

\* C17: a submit made before the exam's startTime, after its endTime or for
\* an exam that is not active fails and changes nothing.
CounterexampleC17 ==
  [][\A c \in Callers, e \in LifeExams, x \in 0..MaxAttempts :
       \A b \in Bodies(e, LifeValues) :
         ( /\ e \in DOMAIN exams
           /\ \/ clock < exams[e].startTime
              \/ clock > exams[e].endTime
              \/ ~exams[e].isActive
           /\ Submit(c, e, x, b) )
         => /\ resp'.code # 200
            /\ attempts' = attempts
            /\ answers' = answers
            /\ results' = results]_vars
\* C18: every entry of the question list of a successful start is a stored
\* question and has neither a correctAnswer nor an explanation field.
TheoremC18 ==
  (resp.op = "start" /\ resp.code = 200) =>
    \A item \in resp.questions :
      /\ "correctAnswer" \notin DOMAIN item
      /\ "explanation" \notin DOMAIN item
      /\ item.id \in DOMAIN questions

\* a start has succeeded and its response lists the two questions of exam 1
WitnessC18 ==
  /\ resp.op = "start"
  /\ resp.code = 200
  /\ {item.id : item \in resp.questions} = QuestionsOf(1)
  /\ QuestionsOf(1) # {}

\* C19: exam content read with its questions carries every question's
\* correct answer when the reader is an admin or a teacher, and no correct
\* answer when the reader is a student who did not ask for the answers.
TheoremC19 ==
  [][(resp' # resp /\ resp'.op = "get" /\ resp'.code = 200) =>
     \A c \in AccessCallers, e \in AccessExams, ia \in BOOLEAN :
       Get(c, e, TRUE, ia) =>
         /\ users[c].role \in {"admin", "teacher"} =>
              \A q \in QuestionsOf(e) :
                \E item \in resp'.questions :
                  /\ item.id = q
                  /\ "correctAnswer" \in DOMAIN item
                  /\ item.correctAnswer = questions[q].correctAnswer
         /\ (users[c].role = "student" /\ ~ia) =>
              /\ {item.id : item \in resp'.questions} = QuestionsOf(e)
              /\ \A item \in resp'.questions :
                   "correctAnswer" \notin DOMAIN item]_vars

\* a read has returned the questions of exam 1 without their answers
WitnessC19 ==
  /\ resp.op = "get"
  /\ resp.code = 200
  /\ resp.questions # {}
  /\ \A item \in resp.questions : "correctAnswer" \notin DOMAIN item

\* C20: reading an exam is allowed to an admin, to the teacher who owns it
\* and to every student, and to nobody else; managing it is allowed to an
\* admin and to the teacher who owns it, and to nobody else.
TheoremC20 ==
  [][((resp' # resp \/ exams' # exams) /\ resp'.op \in {"get", "delete"}) =>
     \A c \in AccessCallers \cap DOMAIN users, e \in AccessExams \cap DOMAIN exams :
       LET role   == users[c].role
           owner  == exams[e].teacherId
           access == \/ role = "admin"
                     \/ role = "teacher" /\ owner = c
                     \/ role = "student"
           manage == \/ role = "admin"
                     \/ role = "teacher" /\ owner = c
       IN /\ \A iq \in BOOLEAN, ia \in BOOLEAN :
               Get(c, e, iq, ia) =>
                 resp'.code = IF access THEN 200 ELSE 403
          /\ Deactivate(c, e) =>
               /\ resp'.code = IF manage THEN 200 ELSE 403
               /\ manage => ~exams'[e].isActive
               /\ ~manage => exams' = exams]_vars

\* the teacher has deactivated exam 1 and was then refused exam 2, which
\* belongs to the admin and is still active
WitnessC20 ==
  /\ resp = Response("get", 403, "Unauthorized to access this exam")
  /\ exams[1].teacherId = TeacherId
  /\ exams[2].teacherId = AdminId
  /\ exams[2].isActive
  /\ ~exams[1].isActive
\* seven days in milliseconds, as the claims count them
SevenDays == 7 * 24 * 60 * 60 * 1000

\* C21: a token issued at the instant T resolves to its identity, while
\* that identity is stored, at every instant up to T + 7 days - 1 second and
\* resolves to nothing at every instant from T + 7 days + 1 second on; every
\* token's expiry is seven days after its issue.
TheoremC21 ==
  \A i \in tokens :
    /\ (clock <= i.at + SevenDays - 1000 /\ i.token.userId \in DOMAIN users) =>
         resolve(i.token, clock).id = i.token.userId
    /\ clock >= i.at + SevenDays + 1000 =>
         resolve(i.token, clock).id = NoUser
    /\ 1000 * (i.token.exp - i.token.iat) = SevenDays

\* a token issued half a second into a second was presented one second
\* after its seven days and refused, its user still being stored
WitnessC21 ==
  \E i \in tokens :
    /\ i.at = 500
    /\ clock = i.at + SevenDays + 1000
    /\ i.token.userId \in DOMAIN users
    /\ resp = Response("verify", 401, "Invalid or expired token")
\* C22: a login with the username of a stored identity and its password
\* succeeds and issues a token, and every issued token that has not expired
\* resolves to the identity it was issued to, with the id, username and role
\* that identity had at the login.
TheoremC22 ==
  [][/\ resp'.op = "login" =>
          \A id \in DOMAIN users, p \in AuthPasswords :
            (/\ p # ""
             /\ users[id].password = hashPassword(p)
             /\ Login(users[id].username, p)) =>
               /\ resp'.code = 200
               /\ resp'.user = id
               /\ \E i \in tokens' :
                    /\ i.at = clock
                    /\ cookie' = i.token
                    /\ i.token.userId = id
                    /\ i.token.username = users[id].username
                    /\ i.token.role = users[id].role
     /\ \A i \in tokens' :
          LET t == i.token
          IN (/\ clock' < 1000 * t.exp
              /\ t.userId \in DOMAIN users'
              /\ users'[t.userId].username = t.username
              /\ users'[t.userId].role = t.role) =>
               (resolve(t, clock))' =
                 [id |-> t.userId, role |-> t.role, username |-> t.username]
    ]_vars

\* the student has logged in and the token of the login, presented two
\* seconds later, was resolved to the student
WitnessC22 ==
  \E i \in tokens :
    /\ i.token.userId = Student1
    /\ clock = i.at + 2000
    /\ resp = [Response("verify", 200, "Token valid") EXCEPT !.user = Student1]
\* a token that fails verification: never issued (altered, malformed or
\* absent) or past its expiry
FailsVerification(t) == t \notin Issued \/ clock >= 1000 * t.exp

\* C23: a token that fails verification (altered, signed under another
\* key, malformed or expired) resolves to the null identity, and a request
\* that presents it is answered 401 as a request without identity, never
\* with an identity and never with a server error: a response to a read or
\* a verification that is not a bare 401 answers no such request.  (What a
\* token resolves to changes only with the clock, the tokens issued and the
\* user rows.)
TheoremC23 ==
  [][/\ (clock' # clock \/ tokens' # tokens \/ users' # users) =>
          \A t \in Presented' :
            (FailsVerification(t))' => (resolve(t, clock))' = getUserFromToken(NoUser)
     /\ (/\ resp' # resp
         /\ resp'.op \in {"verify", "get"}
         /\ resp'.code # 401 \/ resp'.user # NoUser \/ resp'.questions # {}) =>
          \A h \in Headers, c \in Cookies :
            /\ ~(VerifyToken(h, c) /\ FailsVerification(VerifyRequestToken(h, c)))
            /\ ~(GetRequest(h, c, 1) /\ FailsVerification(RequestToken(h, c)))
    ]_vars

\* an altered or malformed token was refused while the issued token was
\* still valid and its user stored
WitnessC23 ==
  \E i \in tokens :
    /\ clock < 1000 * i.token.exp
    /\ i.token.userId \in DOMAIN users
    /\ resp = Response("verify", 401, "Invalid or expired token")
\* C24: a valid token resolves to the row stored now for its user id: after
\* the user is renamed every unexpired token of that user resolves to the
\* new username, whatever the token embeds, and after the user is removed it
\* resolves to the null identity.
TheoremC24 ==
  [][users' # users =>
       \A i \in tokens :
         LET t == i.token
         IN clock < 1000 * t.exp =>
              /\ \A n \in AuthNames :
                   UpdateUser(t.userId, n) =>
                     (resolve(t, clock))' =
                       [id |-> t.userId, role |-> users[t.userId].role, username |-> n]
              /\ RemoveUser(t.userId) =>
                   (resolve(t, clock))' = getUserFromToken(NoUser)
    ]_vars

\* the student logged in as siswa1, was renamed, and the token issued
\* before the renaming was then verified
WitnessC24 ==
  \E i \in tokens :
    /\ i.token.userId = Student1
    /\ i.token.username = "siswa1"
    /\ Student1 \in DOMAIN users
    /\ users[Student1].username = "renamed"
    /\ clock < 1000 * i.token.exp
    /\ resp = [Response("verify", 200, "Token valid") EXCEPT !.user = Student1]
\* the requests that carry a Bearer header and a cookie
BearerHeaders == {Bearer(t) : t \in Presented}
CookiesSent   == Cookies \ {NoToken}

\* C25: for a request with an Authorization: Bearer header and an
\* auth-token cookie, the token of the request is the header's on the exam
\* endpoints and on token verification, and a request that is served is
\* served as the identity of the header's token, whatever the cookie holds.
TheoremC25 ==
  [][/\ tokens' # tokens =>
          \A h \in BearerHeaders', c \in CookiesSent' :
            /\ RequestToken(h, c) = h.token
            /\ VerifyRequestToken(h, c) = h.token
     /\ (resp' # resp /\ resp'.op \in {"verify", "get"} /\ resp'.code = 200) =>
          \A h \in BearerHeaders, c \in CookiesSent :
            /\ VerifyToken(h, c) =>
                 /\ resolve(h.token, clock).id # NoUser
                 /\ resp'.user = resolve(h.token, clock).id
            /\ GetRequest(h, c, 1) =>
                 /\ resolve(h.token, clock).id # NoUser
                 /\ Get(resolve(h.token, clock).id, 1, TRUE, FALSE)
    ]_vars

\* the browser holds the cookie of a login that is still valid, and a read
\* was refused for want of an identity
WitnessC25 ==
  /\ cookie # NoToken
  /\ resolve(cookie, clock).id # NoUser
  /\ resp = Response("get", 401, "Authentication required")
\* C26: a logout changes nothing on the server and revokes nothing: the
\* store and the issued tokens are as before, every token resolves after
\* the logout to what it resolved to before it, and a token whose cookie
\* was cleared still resolves to its stored user until it expires.
TheoremC26 ==
  [][/\ (resp'.op = "logout" /\ Logout) =>
          /\ store' = store
          /\ tokens' = tokens
          /\ clock' = clock
          /\ \A i \in tokens :
               (resolve(i.token, clock))' = resolve(i.token, clock)
     /\ cookie' = NoToken =>
          \A i \in tokens' :
            (clock' < 1000 * i.token.exp /\ i.token.userId \in DOMAIN users') =>
              (resolve(i.token, clock))'.id = i.token.userId
    ]_vars

\* after a login and a logout the cookie is gone, and the token of the
\* login was verified again
WitnessC26 ==
  /\ cookie = NoToken
  /\ \E i \in tokens : i.token.userId = resp.user
  /\ resp.op = "verify"
  /\ resp.code = 200
\* the login requests with both fields present
FullLogins == (AuthUsernames \ {""}) \X (AuthPasswords \ {""})

\* C27: a failed login with username and password present is answered with
\* one status and one message, the same for a username that is not stored
\* and for a stored username with a wrong password.
TheoremC27 ==
  [][(resp'.op = "login" /\ resp'.code # 200) =>
       \A l \in FullLogins :
         Login(l[1], l[2]) =>
           \A m \in FullLogins :
             ~authenticateUser(m[1], m[2], clock).success =>
               /\ resp'.msg = authenticateUser(m[1], m[2], clock).message
               /\ resp'.code = 401
               /\ resp' = Response("login", resp'.code, resp'.msg)
    ]_vars

\* a login was refused while one username of the requests was stored and
\* another was not
WitnessC27 ==
  /\ resp.op = "login"
  /\ resp.code = 401
  /\ resp.msg # "Username and password are required"
  /\ findByUsername("admin") # NoUser
  /\ findByUsername("nobody") = NoUser
CounterexampleC29 ==
  [][(resp' # resp /\ resp'.op = "start") =>
       /\ \A c \in Callers, e \in LifeExams :
            StartBegin(c, e) =>
              /\ c \notin DOMAIN users => resp'.code = 401
              /\ (c \in DOMAIN users /\ users[c].role # "student") => resp'.code = 403
              /\ (c \in DOMAIN users /\ users[c].role = "student" /\ e \notin DOMAIN exams) =>
                   resp'.code = 404
       /\ \A r \in 1..MaxInflight :
            (/\ StartFinish(r)
             /\ AttemptsOf(attempts, inflight[r].studentId, inflight[r].examId) # {}) =>
               resp'.code = 409
    ]_vars
\* C30: a start or a submit of one student leaves the attempts, answers and
\* results of every other student as they were, and a start whose student
\* has no attempt for the exam succeeds whatever attempts other students
\* have for it.
TheoremC30 ==
  [][(attempts' # attempts \/ answers' # answers \/ results' # results \/ resp' # resp) =>
       /\ \A r \in 1..MaxInflight :
            StartFinish(r) =>
              /\ \A a \in 1..Len(attempts) : attempts'[a] = attempts[a]
              /\ \A a \in (Len(attempts) + 1)..Len(attempts') :
                   attempts'[a].studentId = inflight[r].studentId
              /\ answers' = answers
              /\ results' = results
              /\ AttemptsOf(attempts, inflight[r].studentId, inflight[r].examId) = {} =>
                   resp'.code = 200
       /\ (attempts' # attempts \/ answers' # answers \/ results' # results) =>
            \A c \in Callers, e \in LifeExams, x \in 0..MaxAttempts :
              \A b \in Bodies(e, LifeValues) :
                Submit(c, e, x, b) =>
                  \A a \in 1..Len(attempts) :
                    attempts[a].studentId # c =>
                      /\ attempts'[a] = attempts[a]
                      /\ AnswersOf(answers', a) = AnswersOf(answers, a)
                      /\ ResultsOf(results', a) = ResultsOf(results, a)
    ]_vars

\* the second student has started exam 1 after the first student's attempt
\* on it was submitted and scored
WitnessC30 ==
  /\ Len(attempts) = 2
  /\ attempts[1].studentId # attempts[2].studentId
  /\ attempts[1].examId = attempts[2].examId
  /\ attempts[1].status = "completed"
  /\ attempts[2].status = "in_progress"
  /\ resp.op = "start"
  /\ resp.code = 200
\* the completed attempts of a student for an exam
CompletedOf(studentId, examId) ==
  {a \in 1..Len(attempts) : /\ attempts[a].studentId = studentId
                            /\ attempts[a].examId = examId
                            /\ attempts[a].status = "completed"}

\* C35: the window of an exam is [startTime, endTime): a start by a student
\* at exactly startTime is accepted, and a start at exactly endTime is
\* rejected as already ended.
CounterexampleC35 ==
  [][\A c \in AccessCallers, e \in AccessExams \cap DOMAIN exams :
       (/\ c \in DOMAIN users
        /\ users[c].role = "student"
        /\ exams[e].isActive
        /\ StartBegin(c, e))
         => /\ clock = exams[e].startTime /\ clock < exams[e].endTime
                 => inflight' # inflight /\ resp' = resp
            /\ clock = exams[e].endTime
                 => /\ resp' = Response("start", 400, "Exam has ended")
                    /\ inflight' = inflight]_vars

\* C37: no read by a student who has no completed attempt for the exam
\* returns a correct answer of its questions, whatever parameters the
\* request carries.
CounterexampleC37 ==
  [][(resp' # resp /\ resp'.op = "get" /\ resp'.code = 200) =>
     \A c \in AccessCallers \cap DOMAIN users, e \in AccessExams,
        iq \in BOOLEAN, ia \in BOOLEAN :
       (/\ users[c].role = "student"
        /\ CompletedOf(c, e) = {}
        /\ Get(c, e, iq, ia))
         => \A item \in resp'.questions :
              "correctAnswer" \notin DOMAIN item]_vars

\* C32: every attempt is created in_progress; the only change of status is
\* from in_progress to completed, made by a successful submit; a completed
\* attempt keeps its status; no step removes an attempt; and the passing of
\* time changes no attempt, however late it is.
TheoremC32 ==
  [][/\ clock' # clock => attempts' = attempts
     /\ attempts' # attempts =>
          /\ Len(attempts') >= Len(attempts)
          /\ \A a \in 1..Len(attempts) :
               /\ attempts'[a].examId = attempts[a].examId
               /\ attempts'[a].studentId = attempts[a].studentId
               /\ attempts'[a].status # attempts[a].status =>
                    /\ attempts[a].status = "in_progress"
                    /\ attempts'[a].status = "completed"
                    /\ resp' = Response("submit", 200, "Exam submitted successfully")
          /\ \A a \in (Len(attempts) + 1)..Len(attempts') :
               attempts'[a].status = "in_progress"]_vars

\* the exam has ended and the attempt that was started for it is still
\* in_progress
WitnessC32 ==
  /\ Len(attempts) = 1
  /\ attempts[1].status = "in_progress"
  /\ clock > exams[attempts[1].examId].endTime

\* C34: in every state reached through exam create and update requests,
\* every stored exam has startTime strictly before endTime, also after an
\* update that gives only one of the two times.
CounterexampleC34 ==
  \A e \in DOMAIN exams : exams[e].startTime < exams[e].endTime

\* the caller is an admin or the teacher who owns the exam
Manages(c, e) ==
  /\ c \in DOMAIN users
  /\ \/ users[c].role = "admin"
     \/ users[c].role = "teacher" /\ exams[e].teacherId = c

\* C36: the stored fields of an exam are changed only by requests of an
\* admin or of the teacher who owns it: an update or a deactivation by
\* anybody else leaves the exam as it was; an exam created by a teacher is
\* owned by that teacher whatever teacherId the body names; nobody but a
\* teacher or an admin creates an exam; and no update or deactivation
\* changes the owner of an exam.
TheoremC36 ==
  [][exams' # exams =>
       /\ \A e \in DOMAIN exams :
            /\ e \in DOMAIN exams'
            /\ exams'[e].teacherId = exams[e].teacherId
       /\ \A c \in ManageCallers :
            /\ \A e \in ManageExams \cap DOMAIN exams :
                 ~Manages(c, e) =>
                   /\ ~Deactivate(c, e)
                   /\ \A d \in UpdateBodies : ~UpdateExam(c, e, d)
            /\ \A d \in CreateBodies :
                 CreateExam(c, d) =>
                   /\ c \in DOMAIN users
                   /\ users[c].role \in {"admin", "teacher"}
                   /\ \A e \in DOMAIN exams' \ DOMAIN exams :
                        exams'[e].teacherId =
                          IF users[c].role = "teacher" \/ d.teacherId = NULL
                          THEN c ELSE d.teacherId]_vars

\* the first teacher has created an exam naming the second teacher as its
\* owner and owns it, and the second teacher was then refused its update
WitnessC36 ==
  /\ \E e \in DOMAIN exams \ DOMAIN SeedExams : exams[e].teacherId = TeacherId
  /\ \A e \in DOMAIN exams : exams[e].teacherId # Teacher2
  /\ resp = Response("update", 403, "Unauthorized to update this exam")

\* the responses of a request refused for a validation, authentication or
\* authorization reason
Refusals == 400..499

\* C31: a start, submit, exam update or exam deactivation that is refused
\* for a validation, authentication or authorization reason leaves every
\* table as it was: a step that writes is never answered with a refusal.
TheoremC31 ==
  [][resp'.code \in Refusals => store' = store]_vars

\* the teacher's update of exam 1 with the times out of order was refused
\* after the exam had been updated and an attempt for it submitted
WitnessC31 ==
  /\ resp = Response("update", 400, "End time must be after start time")
  /\ exams # SeedExams
  /\ Len(attempts) > 0
  /\ BagCardinality(answers) > 0

\* the stored users that hold the username or the email of a request
Holders(req) ==
  {id \in DOMAIN users : users[id].username = req.username \/ users[id].email = req.email}

\* C33: however register requests interleave at the password hash, no two
\* stored users share a username or an email; a registration that finishes
\* when its username or email has been taken in the meantime is answered
\* 409 and creates no user, and one that finishes first creates exactly one
\* user, so of several concurrent registrations of one username or email
\* exactly one succeeds.
TheoremC33 ==
  [][/\ \A i \in DOMAIN users', j \in DOMAIN users' :
          i # j => /\ users'[i].username # users'[j].username
                   /\ users'[i].email # users'[j].email
     /\ \A r \in 1..MaxInflight :
          RegisterFinish(r) =>
            IF Holders(inflight[r]) # {}
            THEN /\ resp'.code = 409
                 /\ users' = users
            ELSE /\ resp'.code = 200
                 /\ Cardinality(DOMAIN users') = Cardinality(DOMAIN users) + 1
                 /\ \A id \in DOMAIN users : users'[id] = users[id]
                 /\ \E id \in DOMAIN users' \ DOMAIN users :
                      /\ users'[id].username = inflight[r].username
                      /\ users'[id].email = inflight[r].email]_vars

\* two registrations of one username passed the existence checks together:
\* the first created the user, the second was answered 409 by the insert
WitnessC33 ==
  /\ resp = Response("register", 409, "Username or email already exists")
  /\ Cardinality(DOMAIN users) = Cardinality(DOMAIN SeedUsers) + 1
  /\ \E id \in DOMAIN users \ DOMAIN SeedUsers : users[id].username = "siswa5"

\* C38: a register request creates a user only when its caller is an
\* authenticated admin; a register request of any other caller, or of no
\* identity at all, creates no user.
CounterexampleC38 ==
  [][\A r \in 1..MaxInflight :
       (RegisterFinish(r) /\ users' # users) =>
         /\ inflight[r].caller \in DOMAIN users
         /\ users[inflight[r].caller].role = "admin"]_vars

====
